---- MODULE Spec2Model ----
(***************************************************************************)
(* The credential registry of server/main.py: request handlers running in  *)
(* concurrent request-scoped SQLAlchemy sessions (autoflush=False) against *)
(* one Postgres database under READ COMMITTED.  A handler is a sequence of *)
(* database round trips: each SELECT reads the committed tables as they    *)
(* are at that moment, db.add() only queues a write in the session, and    *)
(* db.commit() flushes the queued writes and commits them as one atomic    *)
(* transaction, or raises and leaves the tables as they were.              *)
(***************************************************************************)
EXTENDS Integers, Sequences, FiniteSets, TLC

VARIABLES db, sess, started

vars == <<db, sess, started>>

(***************************************************************************)
(* Bounds and input domains                                                *)
(***************************************************************************)
MaxRequests == 3
MaxRegistry == 3
MaxLedger == 3
MaxBatch == 2
MaxScans == 2
MaxUploads == 1
MaxIngests == 2

Sessions == {"s1", "s2"}
IssuerIds == {"did:a", "did:b"}
Kids == {"k1", "k2"}
Jtis == {"j1", "j2"}

None == <<>>
Some(x) == <<x>>

Names == {None, Some("Univ")}
Reasons == {None, Some("fraud")}

(***************************************************************************)
(* Identity provider (auth.py)                                             *)
(***************************************************************************)
Users == {"admin"}

Bearers ==
    { [sig_ok |-> TRUE,  sub |-> Some("admin")],
      [sig_ok |-> FALSE, sub |-> Some("admin")],
      [sig_ok |-> TRUE,  sub |-> None],
      [sig_ok |-> TRUE,  sub |-> Some("ghost")] }

\* Mutant: the subject of a signed token is not looked up among the users.
get_current_user_unchecked(bearer) ==
    IF ~bearer.sig_ok THEN [denied |-> TRUE]
    ELSE IF bearer.sub = None THEN [denied |-> TRUE]
    ELSE [denied |-> FALSE]

\* get_current_user: the user row, or the 401 it raises.
get_current_user(bearer) ==
    IF ~bearer.sig_ok THEN [denied |-> TRUE]
    ELSE IF bearer.sub = None THEN [denied |-> TRUE]
    ELSE IF bearer.sub[1] \notin Users THEN [denied |-> TRUE]
    ELSE [denied |-> FALSE]

(***************************************************************************)
(* The store: tables of rows, each row with its primary key id             *)
(***************************************************************************)
Tables == {"issuers", "issuer_keys", "credentials", "revoked_credentials", "scans"}

EmptyDb == [t \in Tables |-> {}]

\* Columns declared unique=True (the primary key id is unique in every table).
UniqueColumns(t) ==
    CASE t = "issuers" -> {"id", "issuer_id"}
      [] t = "issuer_keys" -> {"id", "kid"}
      [] t = "credentials" -> {"id", "jti"}
      [] t = "revoked_credentials" -> {"id", "jti"}
      [] t = "scans" -> {"id"}

\* A unique index admits the rows iff no two of them agree on the column.
UniqueHolds(rows, col) ==
    \A r1 \in rows : \A r2 \in rows : r1[col] = r2[col] => r1 = r2

\* Mutant: the columns carry no unique index.
StoreAcceptsAll(cand) == \A t \in Tables : cand[t] = cand[t]

\* Columns declared nullable=False that a handler fills from the request (the
\* others of that kind are always given a value by the code).
NotNullColumns(t) == IF t = "scans" THEN {"jti", "verified"} ELSE {}

\* The constraint check Postgres makes when the session's writes are flushed.
StoreAccepts(cand) ==
    \A t \in Tables :
        /\ \A col \in UniqueColumns(t) : UniqueHolds(cand[t], col)
        /\ \A col \in NotNullColumns(t) : \A r \in cand[t] : r[col] # None

\* now_utc(): the logical clock is the number of requests begun so far.
now_utc == started

\* Writes queued in any open session on table t.
PendingRows(t) ==
    UNION { { sess[s].pending[i].row : i \in { k \in 1..Len(sess[s].pending) :
                  sess[s].pending[k].t = t /\ sess[s].pending[k].kind = "insert" } }
            : s \in Sessions }

Smallest(S) == CHOOSE n \in S : \A m \in S : n <= m

\* str(uuid.uuid4()): a value no row, stored or queued, carries.
FreshIn(used) == Smallest((1..(Cardinality(used) + 1)) \ used)

uuid4(t) == FreshIn({ r.id : r \in db[t] \cup PendingRows(t) })

\* db.add(obj) of a new object; `defaults` are the columns whose default=now
\* lambda runs when the INSERT is flushed.
Insert(t, row, defaults) == [t |-> t, kind |-> "insert", row |-> row, defaults |-> defaults]
\* A loaded object with attributes assigned: UPDATE t SET ... WHERE id = :id.
Update(t, id, set) == [t |-> t, kind |-> "update", id |-> id, set |-> set]

\* Mutant: an INSERT replaces the stored row of the same jti (an upsert).
ApplyWriteUpsert(d, w) ==
    IF w.kind = "insert"
    THEN [d EXCEPT ![w.t] =
            { r \in @ : ~(w.t = "credentials" /\ r.jti = w.row.jti) } \cup
            { [f \in DOMAIN w.row \cup w.defaults |->
                  IF f \in w.defaults THEN Some(now_utc) ELSE w.row[f]] }]
    ELSE [d EXCEPT ![w.t] =
            { IF r.id = w.id
              THEN [f \in DOMAIN r |-> IF f \in DOMAIN w.set THEN w.set[f] ELSE r[f]]
              ELSE r : r \in @ }]

\* One flushed statement applied to the tables.
ApplyWrite(d, w) ==
    IF w.kind = "insert"
    THEN [d EXCEPT ![w.t] = @ \cup
            { [f \in DOMAIN w.row \cup w.defaults |->
                  IF f \in w.defaults THEN Some(now_utc) ELSE w.row[f]] }]
    ELSE [d EXCEPT ![w.t] =
            { IF r.id = w.id
              THEN [f \in DOMAIN r |-> IF f \in DOMAIN w.set THEN w.set[f] ELSE r[f]]
              ELSE r : r \in @ }]

\* Mutant: the first queued statement is committed on its own.
FlushHead(d, pending) ==
    IF pending = <<>> THEN d ELSE ApplyWrite(d, Head(pending))

RECURSIVE Flush(_, _)
Flush(d, pending) ==
    IF pending = <<>> THEN d
    ELSE Flush(ApplyWrite(d, Head(pending)), Tail(pending))

(***************************************************************************)
(* Sessions                                                                *)
(***************************************************************************)
Idle == [pc |-> "idle", req |-> None, loc |-> None, pending |-> <<>>, resp |-> None]

\* The handler returns or raises: the response goes out and get_db closes the
\* session, dropping whatever was queued and not committed.  Of the request
\* only the route stays on record beside the response.
Done(s, resp) ==
    [sess EXCEPT ![s] = [pc |-> "done", req |-> Some([op |-> sess[s].req[1].op]), loc |-> None,
                         pending |-> <<>>, resp |-> Some(resp)]]

HTTPException(code, detail) == [status |-> code, detail |-> detail]
Ok(body) == [status |-> 200, body |-> body]

\* The remaining step of the handler: db.add(...) queued, db.commit() next.
ToCommit(s, writes, okResp) ==
    [sess EXCEPT ![s].pc = "commit", ![s].pending = writes, ![s].loc = Some(okResp)]

\* Each issuer submits its own key material.
Pem(i) == "pem of " \o i

RegistryRequests ==
    { [op |-> "add_issuer", issuer_id |-> i, name |-> n] : i \in IssuerIds, n \in Names }
    \cup { [op |-> "add_issuer_key", issuer_id |-> i, kid |-> k, alg |-> "EdDSA",
            public_key_pem |-> Pem(i), is_active |-> a] :
              i \in IssuerIds, k \in Kids, a \in BOOLEAN }
    \cup { [op |-> "revoke_issuer_key", kid |-> k, reason |-> None] : k \in Kids }
    \cup { [op |-> "get_trust_bundle"], [op |-> "get_revoked_issuer_keys"] }

LedgerRequests ==
    { [op |-> "revoke_credential", jti |-> j, reason |-> r] : j \in Jtis, r \in Reasons }
    \cup { [op |-> "upload_credential_batch"], [op |-> "revocations"] }

ScanRequests == { [op |-> "upload_scan_batch"] }

Requests == RegistryRequests \cup LedgerRequests \cup ScanRequests

Init ==
    /\ db = EmptyDb
    /\ sess = [s \in Sessions |-> Idle]
    /\ started = 0

\* The request as the handler has it: its parameters and the bearer token
\* the gate has passed.
Admitted(req, bearer) ==
    [f \in DOMAIN req \cup {"bearer"} |-> IF f = "bearer" THEN bearer ELSE req[f]]

\* A request arrives: the Depends(get_current_user) gate runs before the handler.
Begin(s, reqs, max) ==
    /\ sess[s].pc \in {"idle", "done"}
    /\ started < max
    /\ \E req \in reqs, bearer \in Bearers :
         /\ started' = started + 1
         /\ db' = db
         /\ sess' = [sess EXCEPT ![s] =
              IF get_current_user(bearer).denied
              THEN [pc |-> "done", req |-> Some([op |-> req.op]), loc |-> None, pending |-> <<>>,
                    resp |-> Some(HTTPException(401, "Could not validate credentials"))]
              ELSE [pc |-> req.op, req |-> Some(Admitted(req, bearer)), loc |-> None,
                    pending |-> <<>>, resp |-> None]]

(***************************************************************************)
(* Issuers and keys                                                        *)
(***************************************************************************)
\* Mutant: a registered issuer takes the name of the request (an upsert).
add_issuer_renaming(s) ==
    /\ sess[s].pc = "add_issuer"
    /\ LET body == sess[s].req[1]
           ex == { i \in db.issuers : i.issuer_id = body.issuer_id }
       IN IF ex # {}
          THEN LET e == CHOOSE i \in ex : TRUE
               IN sess' = ToCommit(s, <<Update("issuers", e.id, [name |-> body.name])>>,
                                   Ok([id |-> e.id, issuer_id |-> e.issuer_id,
                                       name |-> body.name]))
          ELSE LET iss == [id |-> uuid4("issuers"), issuer_id |-> body.issuer_id,
                           name |-> body.name]
               IN sess' = ToCommit(s, <<Insert("issuers", iss, {})>>, Ok(iss))
    /\ UNCHANGED <<db, started>>

\* add_issuer: the SELECT, then either the existing row or a queued INSERT.
add_issuer(s) ==
    /\ sess[s].pc = "add_issuer"
    /\ LET body == sess[s].req[1]
           ex == { i \in db.issuers : i.issuer_id = body.issuer_id }
       IN IF ex # {}
          THEN LET e == CHOOSE i \in ex : TRUE
               IN sess' = Done(s, Ok([id |-> e.id, issuer_id |-> e.issuer_id, name |-> e.name]))
          ELSE LET iss == [id |-> uuid4("issuers"), issuer_id |-> body.issuer_id,
                           name |-> body.name]
               IN sess' = ToCommit(s, <<Insert("issuers", iss, {})>>, Ok(iss))
    /\ UNCHANGED <<db, started>>

\* add_issuer_key, first SELECT: the issuer, or 404.
add_issuer_key(s) ==
    /\ sess[s].pc = "add_issuer_key"
    /\ LET body == sess[s].req[1]
           found == { i \in db.issuers : i.issuer_id = body.issuer_id }
       IN IF found = {}
          THEN sess' = Done(s, HTTPException(404, "Issuer not found"))
          ELSE sess' = [sess EXCEPT ![s].pc = "add_issuer_key_kid",
                                    ![s].loc = Some(CHOOSE i \in found : TRUE)]
    /\ UNCHANGED <<db, started>>

\* The 409 of add_issuer_key: the detail names the kid and the owning issuer.
DuplicateKeyId(kid, owner) ==
    [status |-> 409, detail |-> "Key IDs must be globally unique", kid |-> kid,
     owner |-> owner]

\* Mutant: the kid is looked up among the keys of the adding issuer only.
ExistingKeyOfIssuer(d, iss, kid) ==
    { k \in d.issuer_keys : k.kid = kid /\ k.issuer_id_fk = iss.id }

\* db.query(IssuerKey).filter_by(kid=body.kid): the kid among all issuers' keys.
ExistingKey(d, iss, kid) == { k \in d.issuer_keys : k.kid = kid }

\* add_issuer_key, second SELECT: the kid among all issuers' keys; on a hit the
\* owner is looked up (issuers are never deleted) and 409 raised, else the key
\* is queued.
add_issuer_key_kid(s) ==
    /\ sess[s].pc = "add_issuer_key_kid"
    /\ LET body == sess[s].req[1]
           iss == sess[s].loc[1]
           existing_key == ExistingKey(db, iss, body.kid)
       IN IF existing_key # {}
          THEN LET ek == CHOOSE k \in existing_key : TRUE
                   existing_issuer == CHOOSE i \in db.issuers : i.id = ek.issuer_id_fk
               IN sess' = Done(s, DuplicateKeyId(body.kid, existing_issuer.issuer_id))
          ELSE LET k == [id |-> uuid4("issuer_keys"), issuer_id_fk |-> iss.id,
                         kid |-> body.kid, alg |-> body.alg,
                         public_key_pem |-> body.public_key_pem,
                         is_active |-> body.is_active, revoked |-> FALSE]
               IN sess' = ToCommit(s, <<Insert("issuer_keys", k, {})>>,
                                   Ok([ok |-> TRUE, id |-> k.id]))
    /\ UNCHANGED <<db, started>>

\* Mutant: the revocation also switches the key's is_active off.
revoke_issuer_key_deactivating(s) ==
    /\ sess[s].pc = "revoke_issuer_key"
    /\ LET kid == sess[s].req[1].kid
           found == { k \in db.issuer_keys : k.kid = kid }
       IN IF found = {}
          THEN sess' = Done(s, HTTPException(404, "Issuer key not found"))
          ELSE LET key == CHOOSE k \in found : TRUE
               IN IF key.revoked
                  THEN sess' = Done(s, Ok([message |-> "Issuer key is already revoked",
                                           kid |-> kid, already |-> TRUE]))
                  ELSE sess' = ToCommit(s,
                                 <<Update("issuer_keys", key.id,
                                          [revoked |-> TRUE, is_active |-> FALSE])>>,
                                 Ok([message |-> "Issuer key revoked successfully",
                                     kid |-> kid, reason |-> sess[s].req[1].reason]))
    /\ UNCHANGED <<db, started>>

\* revoke_issuer_key: the SELECT, then 404, already-revoked, or the queued UPDATE.
revoke_issuer_key(s) ==
    /\ sess[s].pc = "revoke_issuer_key"
    /\ LET kid == sess[s].req[1].kid
           found == { k \in db.issuer_keys : k.kid = kid }
       IN IF found = {}
          THEN sess' = Done(s, HTTPException(404, "Issuer key not found"))
          ELSE LET key == CHOOSE k \in found : TRUE
               IN IF key.revoked
                  THEN sess' = Done(s, Ok([message |-> "Issuer key is already revoked",
                                           kid |-> kid, already |-> TRUE]))
                  ELSE sess' = ToCommit(s,
                                 <<Update("issuer_keys", key.id, [revoked |-> TRUE])>>,
                                 Ok([message |-> "Issuer key revoked successfully",
                                     kid |-> kid, reason |-> sess[s].req[1].reason]))
    /\ UNCHANGED <<db, started>>

\* Every order in which a query without ORDER BY may return the rows.
Orderings(S) ==
    { q \in [1..Cardinality(S) -> S] : \A i, j \in 1..Cardinality(S) : q[i] = q[j] => i = j }

\* Mutant: the filter on revoked is missing.
ActiveKeysIgnoringRevoked(d) ==
    { pair \in d.issuer_keys \X d.issuers :
        /\ pair[1].issuer_id_fk = pair[2].id
        /\ pair[1].is_active = TRUE }

\* The joined SELECT of get_trust_bundle.
ActiveKeys(d) ==
    { pair \in d.issuer_keys \X d.issuers :
        /\ pair[1].issuer_id_fk = pair[2].id
        /\ pair[1].is_active = TRUE
        /\ pair[1].revoked = FALSE }

TrustBundleItem(pair) ==
    [issuerId |-> pair[2].issuer_id, kid |-> pair[1].kid, alg |-> pair[1].alg,
     publicKeyPem |-> pair[1].public_key_pem]

\* The bundles get_trust_bundle can return on the tables d at time now.
TrustBundles(d, now) ==
    { [version |-> Len(rows), issuedAt |-> now,
       issuers |-> [i \in 1..Len(rows) |-> TrustBundleItem(rows[i])]] :
         rows \in Orderings(ActiveKeys(d)) }

get_trust_bundle(s) ==
    /\ sess[s].pc = "get_trust_bundle"
    /\ \E out \in TrustBundles(db, now_utc) : sess' = Done(s, Ok(out))
    /\ UNCHANGED <<db, started>>

\* Mutant: the SELECT also filters on is_active.
RevokedKidsStillActive(d) == { k \in d.issuer_keys : k.revoked = TRUE /\ k.is_active = TRUE }

\* The SELECT of get_revoked_issuer_keys.
RevokedKids(d) == { k \in d.issuer_keys : k.revoked = TRUE }

get_revoked_issuer_keys(s) ==
    /\ sess[s].pc = "get_revoked_issuer_keys"
    /\ \E rows \in Orderings(RevokedKids(db)) :
         sess' = Done(s, Ok([revokedKids |-> [i \in 1..Len(rows) |-> rows[i].kid],
                             count |-> Len(rows)]))
    /\ UNCHANGED <<db, started>>

(***************************************************************************)
(* Tokens                                                                  *)
(*                                                                         *)
(* A jws string is modelled by its '.'-separated segments (the empty       *)
(* string by no segment at all).  A segment either is not base64url, or    *)
(* decodes to text that is not JSON, or to a JSON value: an object with    *)
(* its claims, or some other JSON value.                                   *)
(***************************************************************************)
BadB64 == [b64 |-> FALSE, json |-> "none", claims |-> None]
NotJson == [b64 |-> TRUE, json |-> "none", claims |-> None]
JsonArray == [b64 |-> TRUE, json |-> "array", claims |-> None]
JsonObject(claims) == [b64 |-> TRUE, json |-> "object", claims |-> Some(claims)]

Header == JsonObject([jti |-> None, iss |-> None, sub |-> None, vc_type |-> None])
Signature == NotJson

\* The claims of a payload the registry could read: jti, iss, sub and the
\* nested vc.type, each absent (None) or present.
Claims(jti, iss, sub, vc_type) == [jti |-> jti, iss |-> iss, sub |-> sub, vc_type |-> vc_type]

\* The vc.type of a payload: one string, or a list of strings.
TypeString(x) == [json |-> "string", items |-> <<x>>]
TypeList(q) == [json |-> "array", items |-> q]

\* The vc.type of the token that names the jti j.
TypeOf(j) ==
    IF j = "j1" THEN TypeString("Diploma")
    ELSE TypeList(<<"VerifiableCredential", "Diploma">>)

Tokens ==
    { <<Header, JsonObject(Claims(Some(j), Some("did:a"), Some("holder:9"), Some(TypeOf(j)))),
        Signature>> : j \in Jtis }
    \cup { <<Header, JsonObject(Claims(None, Some("did:b"), None, None)), Signature>>,
           <<Header, JsonObject(Claims(Some(""), Some("did:b"), None, None)), Signature>>,
           <<Header, JsonObject(Claims(Some("j1"), None, None, None)), Signature, Signature>>,
           <<Header, JsonObject(Claims(Some("j1"), None, None, None))>>,
           <<BadB64, JsonObject(Claims(Some("j1"), None, None, None)), Signature>>,
           <<Header, NotJson, Signature>>,
           <<Header, JsonArray, Signature>>,
           <<>> }

\* One element of body.credentials: a dict with or without the key "jws".
CredentialItems == { [jws |-> None] } \cup { [jws |-> Some(t)] : t \in Tokens }

\* The items that carry no well-formed token without a jti: every credential
\* they create has its jti in Jtis.
NamedItems ==
    { c \in CredentialItems :
        c.jws = None \/ Len(c.jws[1]) # 3 \/ c.jws[1][2].claims = None
          \/ c.jws[1][2].claims[1].jti \notin {None, Some("")} }

\* base64.urlsafe_b64decode + json.loads of one segment: the value, or the raise.
DecodeSegment(seg) ==
    IF ~seg.b64 THEN [ok |-> FALSE, value |-> seg]
    ELSE IF seg.json = "none" THEN [ok |-> FALSE, value |-> seg]
    ELSE [ok |-> TRUE, value |-> seg]

\* Mutant: the number of segments is not checked.
parse_jws_any_length(token) ==
    IF Len(token) < 2 THEN [ok |-> FALSE, header |-> BadB64, payload |-> BadB64]
    ELSE LET header == DecodeSegment(token[1])
             payload == DecodeSegment(token[2])
         IN IF header.ok /\ payload.ok
            THEN [ok |-> TRUE, header |-> header.value, payload |-> payload.value]
            ELSE [ok |-> FALSE, header |-> BadB64, payload |-> BadB64]

\* _parse_jws_unverified: header and payload, or ValueError.
parse_jws_unverified(token) ==
    IF Len(token) # 3 THEN [ok |-> FALSE, header |-> BadB64, payload |-> BadB64]
    ELSE LET header == DecodeSegment(token[1])
             payload == DecodeSegment(token[2])
         IN IF header.ok /\ payload.ok
            THEN [ok |-> TRUE, header |-> header.value, payload |-> payload.value]
            ELSE [ok |-> FALSE, header |-> BadB64, payload |-> BadB64]

\* fernet.encrypt / fernet.decrypt and hashlib.sha256 of the token text.
enc(jws) == [fernet |-> jws]
dec(ct) == ct.fernet
sha256(jws) == [sha256 |-> jws]

(***************************************************************************)
(* Credentials and revocations                                             *)
(***************************************************************************)
\* Mutant: every token without a jti is given the same generated jti.
uuid4_jti_fixed == "uuid-1"

\* The jti of a token without one: str(uuid.uuid4()), unlike every other jti.
uuid4_jti ==
    LET rows == db.credentials \cup PendingRows("credentials")
    IN "uuid-" \o ToString(FreshIn({ n \in 1..Cardinality(rows) :
                                        \E r \in rows : r.jti = "uuid-" \o ToString(n) }))

\* Mutant: the duplicate check never finds the credential.
ExistingCredentialMissed(d, jti) == { c \in d.credentials : c.jti = jti /\ c.jti # jti }

\* db.query(Credential).filter_by(jti=jti).
ExistingCredential(d, jti) == { c \in d.credentials : c.jti = jti }

\* One iteration of the loop of upload_credential_batch.  The items of the
\* batch are drawn as the loop reaches them; loc counts those seen (total)
\* and those queued (uploaded).
upload_credential_batch(s, items) ==
    /\ sess[s].pc = "upload_credential_batch"
    /\ LET seen == IF sess[s].loc = None THEN [uploaded |-> 0, total |-> 0]
                   ELSE sess[s].loc[1]
           skip == [sess EXCEPT ![s].loc = Some([seen EXCEPT !.total = @ + 1])]
       IN /\ seen.total < MaxBatch
          /\ \E cred_data \in items :
               LET jws == IF cred_data.jws = None THEN <<>> ELSE cred_data.jws[1]
                   meta == parse_jws_unverified(jws)
               IN IF jws = <<>> THEN sess' = skip
                  ELSE IF ~meta.ok THEN sess' = skip
                  ELSE IF meta.payload.json # "object" THEN sess' = skip
                  ELSE LET payload == meta.payload.claims[1]
                           jti == IF payload.jti \in {None, Some("")} THEN uuid4_jti
                                  ELSE payload.jti[1]
                           existing == ExistingCredential(db, jti)
                           cred == [id |-> uuid4("credentials"), jti |-> jti,
                                    format |-> "jws", issuer_did |-> payload.iss,
                                    holder_subject |-> payload.sub, types |-> None,
                                    issued_at |-> None, not_before |-> None,
                                    expires_at |-> None, status |-> "ACTIVE",
                                    revoked_at |-> None, revoke_reason |-> None,
                                    raw_encrypted |-> enc(jws), raw_sha256 |-> sha256(jws)]
                       IN IF existing # {} THEN sess' = skip
                          ELSE sess' = [sess EXCEPT
                                 ![s].pending = Append(@, Insert("credentials", cred, {})),
                                 ![s].loc = Some([uploaded |-> seen.uploaded + 1,
                                                  total |-> seen.total + 1])]
    /\ UNCHANGED <<db, started>>

\* Mutant: without the 404, the entry of an unknown jti is queued.
revoke_credential_unchecked(s) ==
    /\ sess[s].pc = "revoke_credential"
    /\ LET body == sess[s].req[1]
           found == { c \in db.credentials : c.jti = body.jti }
       IN IF found = {}
          THEN sess' = ToCommit(s,
                 << Insert("revoked_credentials",
                           [id |-> uuid4("revoked_credentials"), jti |-> body.jti,
                            reason |-> body.reason], {"revoked_at"}) >>,
                 Ok([ok |-> TRUE]))
          ELSE sess' = [sess EXCEPT ![s].pc = "revoke_credential_entry",
                                    ![s].loc = Some(CHOOSE c \in found : TRUE)]
    /\ UNCHANGED <<db, started>>

\* revoke_credential, first SELECT: the credential, or 404.
revoke_credential(s) ==
    /\ sess[s].pc = "revoke_credential"
    /\ LET jti == sess[s].req[1].jti
           found == { c \in db.credentials : c.jti = jti }
       IN IF found = {}
          THEN sess' = Done(s, HTTPException(404, "Credential not found"))
          ELSE sess' = [sess EXCEPT ![s].pc = "revoke_credential_entry",
                                    ![s].loc = Some(CHOOSE c \in found : TRUE)]
    /\ UNCHANGED <<db, started>>

\* Mutant: the entry is never found.
RevokedEntryMissed(d, jti) == { r \in d.revoked_credentials : r.jti = jti /\ r.jti # jti }

\* db.query(RevokedCredential).filter_by(jti=jti).
RevokedEntry(d, jti) == { r \in d.revoked_credentials : r.jti = jti }

\* revoke_credential, second SELECT: the revocation entry; on a hit the
\* idempotent answer, else the UPDATE of the credential and the INSERT of
\* the entry are queued for one commit.
revoke_credential_entry(s) ==
    /\ sess[s].pc = "revoke_credential_entry"
    /\ LET jti == sess[s].req[1].jti
           body == sess[s].req[1]
           cred == sess[s].loc[1]
           revoked_entry == RevokedEntry(db, jti)
       IN IF revoked_entry # {}
          THEN sess' = Done(s, Ok([ok |-> TRUE, already |-> TRUE]))
          ELSE sess' = ToCommit(s,
                 << Update("credentials", cred.id,
                           [status |-> "REVOKED", revoked_at |-> Some(now_utc),
                            revoke_reason |-> body.reason]),
                    Insert("revoked_credentials",
                           [id |-> uuid4("revoked_credentials"), jti |-> jti,
                            reason |-> body.reason], {"revoked_at"}) >>,
                 Ok([ok |-> TRUE]))
    /\ UNCHANGED <<db, started>>

\* Mutant: the query ends in .first(), so the list has at most one jti.
RevocationListsFirst(d, now) ==
    { [version |-> Len(rows), issuedAt |-> now,
       revokedJti |-> [i \in 1..Len(rows) |-> rows[i].jti]] :
         rows \in UNION { Orderings(S) : S \in { T \in SUBSET d.revoked_credentials :
                              Cardinality(T) = IF d.revoked_credentials = {} THEN 0 ELSE 1 } } }

\* Mutant: the version counts the credentials, not the entries.
RevocationListsByCredentials(d, now) ==
    { [version |-> Cardinality(d.credentials), issuedAt |-> now,
       revokedJti |-> [i \in 1..Len(rows) |-> rows[i].jti]] :
         rows \in Orderings(d.revoked_credentials) }

\* The lists revocations can return on the tables d at time now.
RevocationLists(d, now) ==
    { [version |-> Len(rows), issuedAt |-> now,
       revokedJti |-> [i \in 1..Len(rows) |-> rows[i].jti]] :
         rows \in Orderings(d.revoked_credentials) }

revocations(s) ==
    /\ sess[s].pc = "revocations"
    /\ \E out \in RevocationLists(db, now_utc) : sess' = Done(s, Ok(out))
    /\ UNCHANGED <<db, started>>

(***************************************************************************)
(* Scans                                                                   *)
(***************************************************************************)
\* The scanned_at value of an item: the ISO 8601 text (with or without a
\* trailing Z) of the instant t, or anything else (other text, null, a number).
IsoText(t) == [iso |-> TRUE, t |-> t]
NotIsoText == [iso |-> FALSE, t |-> 0]

\* datetime.fromisoformat(text.replace('Z', '+00:00')): the instant, or the raise.
fromisoformat(text) ==
    IF text.iso THEN [ok |-> TRUE, value |-> Some(text.t)] ELSE [ok |-> FALSE, value |-> None]

\* A JSON value of an item: null, or a string or boolean.
Null == None
Value(x) == Some(x)

\* One element of body.scans (Dict[str, Any]): each key absent (None) or
\* present with a JSON value.
ScanItems ==
    { [jti |-> Some(Value("j1")), verified |-> Some(Value(TRUE)), scanned_at |-> None],
      [jti |-> Some(Value("j1")), verified |-> Some(Value(TRUE)),
       scanned_at |-> Some(IsoText(0))],
      [jti |-> Some(Value("j1")), verified |-> Some(Value(TRUE)),
       scanned_at |-> Some(NotIsoText)],
      [jti |-> None, verified |-> None, scanned_at |-> None],
      [jti |-> Some(Null), verified |-> Some(Value(TRUE)), scanned_at |-> None] }

\* The items that carry their own scanned_at.
StampedItems == { i \in ScanItems : i.scanned_at # None }

ScanBatches(items) == UNION { [1..n -> items] : n \in 0..MaxBatch }

\* The loop of upload_scan_batch over `scans`: the queued INSERTs, one for
\* each item that did not raise.
RECURSIVE ScanWrites(_, _)
ScanWrites(scans, used) ==
    IF scans = <<>> THEN <<>>
    ELSE LET scan_data == Head(scans)
             id == FreshIn(used)
             row == [id |-> id,
                     jti |-> IF scan_data.jti = None THEN Value("unknown")
                             ELSE scan_data.jti[1],
                     verified |-> IF scan_data.verified = None THEN Value(FALSE)
                                  ELSE scan_data.verified[1]]
         IN IF scan_data.scanned_at = None
            THEN <<Insert("scans", row, {"scanned_at"})>>
                     \o ScanWrites(Tail(scans), used \cup {id})
            ELSE LET at == fromisoformat(scan_data.scanned_at[1])
                 IN IF at.ok
                    THEN <<Insert("scans", [id |-> row.id, jti |-> row.jti,
                                            verified |-> row.verified,
                                            scanned_at |-> at.value], {})>>
                             \o ScanWrites(Tail(scans), used \cup {id})
                    ELSE ScanWrites(Tail(scans), used)

\* upload_scan_batch touches the database only in its commit: the loop queues
\* the scans, and Commit flushes them.
upload_scan_batch(s, items) ==
    /\ sess[s].pc = "upload_scan_batch"
    /\ \E scans \in ScanBatches(items) :
         LET writes == ScanWrites(scans, { r.id : r \in db.scans \cup PendingRows("scans") })
         IN sess' = ToCommit(s, writes, Ok([uploaded |-> Len(writes), total |-> Len(scans)]))
    /\ UNCHANGED <<db, started>>

(***************************************************************************)
(* Commit                                                                  *)
(***************************************************************************)
\* Mutant: the batch handlers swallow the exception and report nothing uploaded.
CommitFailureSwallowed(op, cause) ==
    IF op \in {"upload_scan_batch", "upload_credential_batch"}
    THEN Ok([uploaded |-> 0, total |-> 0])
    ELSE HTTPException(500, cause)

\* What the handler makes of a db.commit() that raised: the batch handlers
\* catch it, roll back and answer 400; the others let it propagate (500).
CommitFailure(op, cause) ==
    IF op \in {"upload_scan_batch", "upload_credential_batch"}
    THEN HTTPException(400, "Batch upload failed: " \o cause)
    ELSE HTTPException(500, cause)

\* The response of a handler whose db.commit() returned.
CommitSuccess(s) ==
    IF sess[s].pc = "upload_credential_batch"
    THEN Ok(IF sess[s].loc = None THEN [uploaded |-> 0, total |-> 0] ELSE sess[s].loc[1])
    ELSE sess[s].loc[1]

\* db.commit(): flush the queued writes and commit them as one transaction, or
\* raise (a violated constraint, or the store failing) and change nothing.
\* The loop of upload_credential_batch ends here, when the batch has no more
\* items.
Commit(s) ==
    /\ sess[s].pc \in {"commit", "upload_credential_batch"}
    /\ \E up \in BOOLEAN :
         LET cand == Flush(db, sess[s].pending)
         IN IF up /\ StoreAccepts(cand)
            THEN /\ db' = cand
                 /\ sess' = Done(s, CommitSuccess(s))
            ELSE /\ db' = db
                 /\ sess' = Done(s, CommitFailure(sess[s].req[1].op,
                                   IF up THEN "IntegrityError" ELSE "OperationalError"))
    /\ UNCHANGED started

(***************************************************************************)
(* Specifications                                                          *)
(***************************************************************************)
RegistryStep(s) ==
    \/ add_issuer(s)
    \/ add_issuer_key(s)
    \/ add_issuer_key_kid(s)
    \/ revoke_issuer_key(s)
    \/ get_trust_bundle(s)
    \/ get_revoked_issuer_keys(s)

LedgerStep(s, items) ==
    \/ upload_credential_batch(s, items)
    \/ revoke_credential(s)
    \/ revoke_credential_entry(s)
    \/ revocations(s)

\* The named items whose token, if well-formed, has the jti j1.
CoreItems ==
    { c \in NamedItems :
        c.jws = None \/ Len(c.jws[1]) # 3 \/ c.jws[1][2].claims = None
          \/ c.jws[1][2].claims[1].jti = Some("j1") }

\* Every handler, any two requests at a time, on one issuer, one key and one
\* credential.
CoreRequests ==
    { r \in Requests :
        /\ r.op \in {"add_issuer", "add_issuer_key"} => r.issuer_id = "did:a"
        /\ r.op \in {"add_issuer_key", "revoke_issuer_key"} => r.kid = "k1"
        /\ r.op = "revoke_credential" => r.jti = "j1" }

Next ==
    \E s \in Sessions :
        \/ Begin(s, CoreRequests, MaxRequests)
        \/ RegistryStep(s)
        \/ LedgerStep(s, CoreItems)
        \/ upload_scan_batch(s, StampedItems)
        \/ Commit(s)

Spec == Init /\ [][Next]_vars

\* The handlers of issuers and keys alone (they touch no other table), on a
\* database that is empty or already holds the issuer did:a.
InitRegistry ==
    /\ db \in { EmptyDb,
                [EmptyDb EXCEPT !.issuers =
                    { [id |-> 1, issuer_id |-> "did:a", name |-> Some("Univ")] }] }
    /\ sess = [s \in Sessions |-> Idle]
    /\ started = 0

NextRegistry ==
    \E s \in Sessions :
        \/ Begin(s, RegistryRequests, MaxRegistry)
        \/ RegistryStep(s)
        \/ Commit(s)

SpecRegistry == InitRegistry /\ [][NextRegistry]_vars

\* The handlers of credentials and revocations alone.
NextLedger ==
    \E s \in Sessions :
        \/ Begin(s, LedgerRequests, MaxLedger)
        \/ LedgerStep(s, NamedItems)
        \/ Commit(s)

SpecLedger == Init /\ [][NextLedger]_vars

\* The items with a well-formed token that names its jti.
WellFormedItems == { c \in NamedItems : c.jws # None /\ parse_jws_unverified(c.jws[1]).ok
                                          /\ c.jws[1][2].json = "object" }

\* The handlers of credentials and revocations, every batch item a
\* well-formed token: an item not uploaded was skipped as already stored.
NextIngest ==
    \E s \in Sessions :
        \/ Begin(s, LedgerRequests, MaxLedger)
        \/ LedgerStep(s, WellFormedItems)
        \/ Commit(s)

SpecIngest == Init /\ [][NextIngest]_vars

\* The items that carry a token whose payload, if it decodes, is an object.
TokenItems ==
    { c \in CredentialItems :
        c.jws # None /\ c.jws[1] # <<>> /\ (Len(c.jws[1]) = 3 => c.jws[1][2] # JsonArray) }

\* The handler of credential batches alone, every item a token, with or
\* without a jti, or malformed.
NextTokens ==
    \E s \in Sessions :
        \/ Begin(s, { [op |-> "upload_credential_batch"] }, MaxUploads)
        \/ upload_credential_batch(s, TokenItems)
        \/ Commit(s)

SpecTokens == Init /\ [][NextTokens]_vars

\* One item of each kind the batch loop tells apart: no jws key, an empty
\* jws, a token that names its jti, a token without a jti, a malformed token
\* and a token whose payload is not an object.
KindItems ==
    { c \in CredentialItems :
        \/ c.jws \in {None, Some(<<>>)}
        \/ /\ c.jws # None /\ Len(c.jws[1]) \in {3, 4}
           /\ c.jws[1][1] = Header
           /\ \/ c.jws[1][2] = JsonArray
              \/ /\ c.jws[1][2].claims # None
                 /\ c.jws[1][2].claims[1].jti \in {None, Some("j1")} }

\* The handler of credential batches alone, on one item of each kind.
NextBatches ==
    \E s \in Sessions :
        \/ Begin(s, { [op |-> "upload_credential_batch"] }, MaxIngests)
        \/ upload_credential_batch(s, KindItems)
        \/ Commit(s)

SpecBatches == Init /\ [][NextBatches]_vars

\* The handler of scan batches alone, on every kind of item.
NextScans ==
    \E s \in Sessions :
        \/ Begin(s, ScanRequests, MaxScans)
        \/ upload_scan_batch(s, ScanItems)
        \/ Commit(s)

SpecScans == Init /\ [][NextScans]_vars

(***************************************************************************)
(* Properties                                                              *)
(***************************************************************************)
\* Session s has answered a request on route op.
Finished(s, op) == sess[s].pc = "done" /\ sess[s].req[1].op = op

\* The response of session s is an error of this status and detail.
Raised(s, code, detail) ==
    /\ sess[s].resp[1].status = code
    /\ sess[s].resp[1].detail = detail

\* The response of session s is the 200 of the handler.
Returned(s) == sess[s].resp[1].status = 200

HasEntry(d, jti) == \E r \in d.revoked_credentials : r.jti = jti

\* C1: in every committed state a credential is REVOKED iff a revocation
\* entry with its jti exists.
C1_RevokedIffEntry ==
    \A c \in db.credentials : (c.status = "REVOKED") <=> HasEntry(db, c.jti)

\* C1 witness: a revoked credential with its entry, after a second revoke of
\* it lost the race and was rolled back.
C1_Witness ==
    /\ \E c \in db.credentials : c.status = "REVOKED" /\ HasEntry(db, c.jti)
    /\ \E s \in Sessions :
         Finished(s, "revoke_credential") /\ Raised(s, 500, "IntegrityError")

\* C2: no step takes a REVOKED credential back to ACTIVE, and no step removes
\* a credential or a revocation entry.
C2_RevocationOneWay ==
    [][ /\ \A c \in db.credentials :
             \E c2 \in db'.credentials :
                 /\ c2.id = c.id /\ c2.jti = c.jti
                 /\ c.status = "REVOKED" => c2.status = "REVOKED"
        /\ \A r \in db.revoked_credentials :
             \E r2 \in db'.revoked_credentials : r2.id = r.id /\ r2.jti = r.jti
      ]_vars

\* C2 witness: the credential is still REVOKED after every request of the
\* budget has been answered, a re-revoke of it among them.
C2_Witness ==
    /\ started = MaxRequests
    /\ \A s \in Sessions : sess[s].pc = "done"
    /\ \E c \in db.credentials : c.status = "REVOKED"
    /\ \E s \in Sessions :
         /\ Finished(s, "revoke_credential")
         /\ sess[s].resp = Some(Ok([ok |-> TRUE, already |-> TRUE]))

\* C3: two concurrent revokes of one credential leave one entry, and neither
\* caller gets the store's uniqueness violation.
C3_RevokeRaceIdempotent ==
    /\ UniqueHolds(db.revoked_credentials, "jti")
    /\ \A s \in Sessions :
         Finished(s, "revoke_credential") => ~Raised(s, 500, "IntegrityError")

\* The jtis of the credentials queued in a session are pairwise distinct.
DistinctJtis(pending) ==
    \A i, j \in 1..Len(pending) : pending[i].row.jti = pending[j].row.jti => i = j

\* C4: a credential batch with no jti twice in itself is never failed by the
\* store's uniqueness check: of two batches racing on a jti, the loser skips
\* the item and stores the others.
C4_BatchRaceSkips ==
    [][ \A s \in Sessions :
          ( /\ sess[s].pc = "upload_credential_batch"
            /\ DistinctJtis(sess[s].pending)
            /\ sess'[s].pc = "done" )
          => ~(Raised(s, 400, "Batch upload failed: IntegrityError"))'
      ]_vars

\* C5: two concurrent addKey calls with one kid leave one key, and neither
\* caller gets the store's uniqueness violation.
C5_AddKeyRaceDuplicate ==
    /\ UniqueHolds(db.issuer_keys, "kid")
    /\ \A s \in Sessions :
         Finished(s, "add_issuer_key") => ~Raised(s, 500, "IntegrityError")

\* C6: in every committed state no two credentials share a jti, no two
\* revocation entries share a jti and no two issuer keys share a kid.
C6_StoreUniqueness ==
    /\ \A c1, c2 \in db.credentials : c1.jti = c2.jti => c1 = c2
    /\ \A r1, r2 \in db.revoked_credentials : r1.jti = r2.jti => r1 = r2
    /\ \A k1, k2 \in db.issuer_keys : k1.kid = k2.kid => k1 = k2

\* C6 witness: the store has refused a commit that passed the handler's own
\* check-then-insert.
C6_Witness ==
    \E s \in Sessions :
        /\ sess[s].pc = "done"
        /\ sess[s].resp[1].status \in {400, 500}
        /\ sess[s].resp[1].detail \in {"IntegrityError", "Batch upload failed: IntegrityError"}

\* C7: a revoke of a credential that has its entry answers already=true
\* and writes nothing; the revoked credential and its entry keep every value
\* of the first revocation.
C7_ReRevokeNoOp ==
    [][ /\ \A s \in Sessions :
             ( /\ sess[s].pc \in {"revoke_credential", "revoke_credential_entry"}
               /\ HasEntry(db, sess[s].req[1].jti)
               /\ sess'[s] # sess[s] )
             => /\ db' = db
                /\ sess'[s].pending = <<>>
                /\ IF sess[s].pc = "revoke_credential"
                   THEN sess'[s].pc = "revoke_credential_entry"
                   ELSE /\ sess'[s].pc = "done"
                        /\ sess'[s].resp = Some(Ok([ok |-> TRUE, already |-> TRUE]))
        /\ \A r \in db.revoked_credentials : r \in db'.revoked_credentials
        /\ \A c \in db.credentials : c.status = "REVOKED" => c \in db'.credentials
      ]_vars

\* C7 witness: a revoke answered already=true, the entry of an earlier
\* request in the table.
C7_Witness ==
    \E s \in Sessions :
        /\ Finished(s, "revoke_credential")
        /\ sess[s].resp = Some(Ok([ok |-> TRUE, already |-> TRUE]))
        /\ \E r \in db.revoked_credentials : r.revoked_at[1] < started

\* C8: a revoke of a jti without a credential answers 404 and writes nothing,
\* and every revocation entry has a credential of its jti.
C8_RevokeUnknown ==
    /\ [](\A r \in db.revoked_credentials : \E c \in db.credentials : c.jti = r.jti)
    /\ [][ \A s \in Sessions :
             ( /\ sess[s].pc = "revoke_credential"
               /\ \A c \in db.credentials : c.jti # sess[s].req[1].jti
               /\ sess'[s] # sess[s] )
             => /\ db' = db
                /\ sess'[s].pc = "done"
                /\ sess'[s].pending = <<>>
                /\ sess'[s].resp = Some(HTTPException(404, "Credential not found"))
          ]_vars

\* C8 witness: a revoke answered 404 while another credential is stored and
\* no entry exists.
C8_Witness ==
    /\ db.credentials # {}
    /\ db.revoked_credentials = {}
    /\ \E s \in Sessions :
         Finished(s, "revoke_credential") /\ Raised(s, 404, "Credential not found")

\* C9: addKey for an unregistered issuer answers 404; for a registered issuer
\* and a kid some issuer already has it answers 409 naming the owner; either
\* way no table changes.
C9_AddKeyFailures ==
    [][ \A s \in Sessions :
          /\ ( /\ sess[s].pc = "add_issuer_key"
               /\ \A i \in db.issuers : i.issuer_id # sess[s].req[1].issuer_id
               /\ sess'[s] # sess[s] )
             => /\ db' = db
                /\ sess'[s].pc = "done"
                /\ sess'[s].resp = Some(HTTPException(404, "Issuer not found"))
          /\ \A k \in db.issuer_keys :
               ( /\ sess[s].pc = "add_issuer_key_kid"
                 /\ k.kid = sess[s].req[1].kid
                 /\ sess'[s] # sess[s] )
               => /\ db' = db
                  /\ sess'[s].pc = "done"
                  /\ sess'[s].resp[1].status = 409
                  /\ sess'[s].resp[1].kid = k.kid
                  /\ \E i \in db.issuers :
                       i.id = k.issuer_id_fk /\ sess'[s].resp[1].owner = i.issuer_id
      ]_vars

\* C9 witness: one addKey answered 409 naming did:a as the owner, another
\* answered 404, and the one key stored is the owner's.
C9_Witness ==
    /\ Cardinality(db.issuer_keys) = 1
    /\ \E s, o \in Sessions :
         /\ Finished(s, "add_issuer_key")
         /\ sess[s].resp[1].status = 409 /\ sess[s].resp[1].owner = "did:a"
         /\ Finished(o, "add_issuer_key") /\ Raised(o, 404, "Issuer not found")

\* Bundle b lists each key of d with is_active and not revoked once, under
\* its owner's issuer_id, and nothing else.
ExactBundle(b, d) ==
    /\ b.version = Len(b.issuers)
    /\ \A k \in d.issuer_keys :
         LET at == { i \in 1..Len(b.issuers) : b.issuers[i].kid = k.kid }
         IN IF k.is_active /\ ~k.revoked
            THEN /\ Cardinality(at) = 1
                 /\ \A i \in at :
                      /\ \E o \in d.issuers :
                           o.id = k.issuer_id_fk /\ b.issuers[i].issuerId = o.issuer_id
                      /\ b.issuers[i].alg = k.alg
                      /\ b.issuers[i].publicKeyPem = k.public_key_pem
            ELSE at = {}
    /\ \A i \in 1..Len(b.issuers) : \E k \in d.issuer_keys : k.kid = b.issuers[i].kid

\* C10: the bundle get_trust_bundle returns is exact for the tables it
\* read, in every reachable state.
C10_TrustBundleExact ==
    /\ [](\A b \in TrustBundles(db, now_utc) : ExactBundle(b, db))
    /\ [][ \A s \in Sessions :
             (sess[s].pc = "get_trust_bundle" /\ sess'[s].pc = "done")
             => ExactBundle(sess'[s].resp[1].body, db) ]_vars

\* C10 witness: a bundle was returned without the key that is revoked and
\* still is_active.
C10_Witness ==
    \E s \in Sessions : \E k \in db.issuer_keys :
        /\ Finished(s, "get_trust_bundle") /\ Returned(s)
        /\ k.revoked /\ k.is_active
        /\ \A i \in 1..Len(sess[s].resp[1].body.issuers) :
             sess[s].resp[1].body.issuers[i].kid # k.kid

\* The elements of a list.
Range(q) == { q[i] : i \in 1..Len(q) }

\* C11: no step takes a revoked key back to revoked = false or removes it; in
\* every state a revoked key is in no trust bundle that can be built and in
\* every list of revoked kids that can be built, and so in the answers given.
C11_KeyRevocationOneWay ==
    /\ [][ \A k \in db.issuer_keys :
              k.revoked => \E k2 \in db'.issuer_keys :
                              k2.id = k.id /\ k2.kid = k.kid /\ k2.revoked ]_vars
    /\ [](\A k \in db.issuer_keys :
            k.revoked =>
              /\ \A b \in TrustBundles(db, now_utc) :
                   \A i \in 1..Len(b.issuers) : b.issuers[i].kid # k.kid
              /\ \A rows \in Orderings(RevokedKids(db)) :
                   \E i \in 1..Len(rows) : rows[i].kid = k.kid)
    /\ [][ \A s \in Sessions : \A k \in db.issuer_keys :
              (k.revoked /\ sess[s].pc # "done" /\ sess'[s].pc = "done")
              => /\ sess[s].pc = "get_trust_bundle" =>
                      \A i \in 1..Len(sess'[s].resp[1].body.issuers) :
                          sess'[s].resp[1].body.issuers[i].kid # k.kid
                 /\ sess[s].pc = "get_revoked_issuer_keys" =>
                      k.kid \in Range(sess'[s].resp[1].body.revokedKids) ]_vars

\* C11 witness: after a successful revoke_issuer_key, the list of revoked
\* kids was returned with the key in it, the key still is_active.
C11_Witness ==
    \E s, o \in Sessions : \E k \in db.issuer_keys :
        /\ k.revoked /\ k.is_active
        /\ Finished(o, "revoke_issuer_key") /\ Returned(o)
        /\ "reason" \in DOMAIN sess[o].resp[1].body
        /\ Finished(s, "get_revoked_issuer_keys") /\ Returned(s)
        /\ k.kid \in Range(sess[s].resp[1].body.revokedKids)

\* C12: a trust bundle built after one that has been returned, whatever keys
\* were added or revoked in between, has a version at least the returned one's.
C12_BundleVersionMonotonic ==
    \A s \in Sessions :
        (Finished(s, "get_trust_bundle") /\ Returned(s))
        => \A b \in TrustBundles(db, now_utc) : b.version >= sess[s].resp[1].body.version

\* C13: no step removes a revocation entry; every entry is in every
\* revocation list that can be built; and a list built after one that has
\* been returned contains every jti of the returned one and has a version at
\* least as large.
C13_RevocationListAppendOnly ==
    /\ [][ \A r \in db.revoked_credentials :
              \E r2 \in db'.revoked_credentials : r2.jti = r.jti ]_vars
    /\ [](\A l \in RevocationLists(db, now_utc) :
            /\ \A r \in db.revoked_credentials : r.jti \in Range(l.revokedJti)
            /\ \A s \in Sessions :
                 (Finished(s, "revocations") /\ Returned(s))
                 => /\ Range(sess[s].resp[1].body.revokedJti) \subseteq Range(l.revokedJti)
                    /\ l.version >= sess[s].resp[1].body.version)
    /\ [][ \A s \in Sessions :
              (sess[s].pc = "revocations" /\ sess'[s].pc = "done")
              => /\ \A r \in db.revoked_credentials :
                      r.jti \in Range(sess'[s].resp[1].body.revokedJti)
                 /\ \A o \in Sessions :
                      (Finished(o, "revocations") /\ Returned(o))
                      => /\ Range(sess[o].resp[1].body.revokedJti)
                              \subseteq Range(sess'[s].resp[1].body.revokedJti)
                         /\ sess'[s].resp[1].body.version >= sess[o].resp[1].body.version
          ]_vars

\* C13 witness: a revoke succeeded and a revocation list returned after it
\* has the jti, a second credential being stored and not revoked.
C13_Witness ==
    \E s, o \in Sessions :
        /\ Finished(o, "revoke_credential") /\ sess[o].resp = Some(Ok([ok |-> TRUE]))
        /\ Finished(s, "revocations") /\ Returned(s)
        /\ sess[s].resp[1].body.version = 1
        /\ \A r \in db.revoked_credentials : r.jti \in Range(sess[s].resp[1].body.revokedJti)
        /\ \E c \in db.credentials : c.status = "ACTIVE"

\* List l has the jti of each revocation entry of d once and nothing else,
\* these are the jtis of the REVOKED credentials of d, and its version is
\* its length.
ExactRevocationList(l, d) ==
    /\ l.version = Len(l.revokedJti)
    /\ \A r \in d.revoked_credentials :
         Cardinality({ i \in 1..Len(l.revokedJti) : l.revokedJti[i] = r.jti }) = 1
    /\ Range(l.revokedJti) = { r.jti : r \in d.revoked_credentials }
    /\ Range(l.revokedJti) = { c.jti : c \in { x \in d.credentials : x.status = "REVOKED" } }

\* C14: the list revocations returns is exact for the tables it read, in
\* every reachable state.
C14_RevocationListExact ==
    /\ [](\A l \in RevocationLists(db, now_utc) : ExactRevocationList(l, db))
    /\ [][ \A s \in Sessions :
              (sess[s].pc = "revocations" /\ sess'[s].pc = "done")
              => ExactRevocationList(sess'[s].resp[1].body, db) ]_vars

\* C14 witness: a list of one jti was returned, that of the credential
\* revoked for fraud, while the other credential stored is ACTIVE.
C14_Witness ==
    \E s \in Sessions : \E c \in db.credentials :
        /\ Finished(s, "revocations") /\ Returned(s)
        /\ sess[s].resp[1].body.revokedJti = <<c.jti>>
        /\ c.status = "REVOKED" /\ c.revoke_reason = Some("fraud")
        /\ Cardinality(db.credentials) = 2

\* The item raises inside the loop: its scanned_at is there and unparseable.
FailsAlone(item) == item.scanned_at # None /\ ~item.scanned_at[1].iso

\* The items of a batch that do not raise, in the order of the batch.
Passing(scans) == SelectSeq(scans, LAMBDA item : ~FailsAlone(item))

\* C15: a scan batch of n items, k of them raising in the loop at any
\* positions, queues one scan for each of the other n - k in order and counts
\* uploaded = n - k and total = n; unless the store is unavailable the call
\* returns these counts and the table has exactly those n - k scans more.
C15_ScanItemsIndependent ==
    /\ [][ \A s \in Sessions :
              (sess[s].pc = "upload_scan_batch" /\ sess'[s] # sess[s])
              => \E scans \in ScanBatches(ScanItems) :
                   /\ sess'[s].loc = Some(Ok([uploaded |-> Len(Passing(scans)),
                                             total |-> Len(scans)]))
                   /\ Len(sess'[s].pending) = Len(Passing(scans))
                   /\ \A i \in 1..Len(Passing(scans)) :
                        /\ sess'[s].pending[i].t = "scans"
                        /\ sess'[s].pending[i].row.jti =
                             IF Passing(scans)[i].jti = None THEN Value("unknown")
                             ELSE Passing(scans)[i].jti[1] ]_vars
    /\ [][ \A s \in Sessions :
              ( /\ sess[s].pc = "commit" /\ sess[s].req[1].op = "upload_scan_batch"
                /\ sess'[s].pc = "done"
                /\ ~Raised(s, 400, "Batch upload failed: OperationalError")' )
              => /\ sess'[s].resp = sess[s].loc
                 /\ db.scans \subseteq db'.scans
                 /\ Cardinality(db'.scans \ db.scans) = Len(sess[s].pending) ]_vars

\* Session s is at the db.commit() of a batch handler.
AtBatchCommit(s) ==
    \/ sess[s].pc = "upload_credential_batch"
    \/ sess[s].pc = "commit" /\ sess[s].req[1].op = "upload_scan_batch"

\* C16: the commit of a scan batch or of a credential batch either stores
\* every queued row and returns the counts, or fails: then the call answers
\* with the error, not with counts, and no table has changed.
C16_BatchCommitAllOrNothing ==
    [][ \A s \in Sessions :
          (AtBatchCommit(s) /\ sess'[s].pc = "done")
          => \/ /\ sess'[s].resp[1].status = 200
                /\ sess'[s].resp[1].body.uploaded = Len(sess[s].pending)
                /\ \A t \in Tables : db[t] \subseteq db'[t]
                /\ \A i \in 1..Len(sess[s].pending) :
                     \E r \in db'[sess[s].pending[i].t] \ db[sess[s].pending[i].t] :
                         r.id = sess[s].pending[i].row.id
                /\ Cardinality(db'.scans) + Cardinality(db'.credentials)
                     = Cardinality(db.scans) + Cardinality(db.credentials)
                       + Len(sess[s].pending)
             \/ /\ sess'[s].resp[1].status = 400
                /\ sess'[s].resp[1].detail \in { "Batch upload failed: " \o c :
                                                   c \in {"IntegrityError", "OperationalError"} }
                /\ db' = db
      ]_vars

\* C16 witness: a credential batch lost its commit to a racing batch and a
\* scan batch lost its commit to the store; both were answered 400, and the
\* tables hold the winner's credential and no scan.
C16_Witness ==
    /\ db.scans = {} /\ db.credentials # {}
    /\ \E s, o \in Sessions :
         /\ Finished(s, "upload_credential_batch")
         /\ Raised(s, 400, "Batch upload failed: IntegrityError")
         /\ Finished(o, "upload_scan_batch")
         /\ Raised(o, 400, "Batch upload failed: OperationalError")

\* C17: a batch item whose jti has a credential when the item is looked up
\* is not queued and the loop goes on to the next item; no step of a batch
\* changes or removes a stored credential, and no jti is stored twice.
C17_IngestIdempotent ==
    /\ [](\A c1, c2 \in db.credentials : c1.jti = c2.jti => c1.id = c2.id)
    /\ [][ \A s \in Sessions :
              (sess[s].pc = "upload_credential_batch" /\ sess'[s] # sess[s])
              => /\ \A c \in db.credentials : c \in db'.credentials
                 /\ sess'[s].pc = "upload_credential_batch"
                    => /\ db' = db
                       /\ sess'[s].loc[1].total = Len(sess'[s].pending)
                            + (sess'[s].loc[1].total - sess'[s].loc[1].uploaded)
                       /\ \/ sess'[s].pending = sess[s].pending
                          \/ /\ Len(sess'[s].pending) = Len(sess[s].pending) + 1
                             /\ SubSeq(sess'[s].pending, 1, Len(sess[s].pending))
                                  = sess[s].pending
                             /\ \A c \in db.credentials :
                                  c.jti # sess'[s].pending[Len(sess'[s].pending)].row.jti
          ]_vars

\* C17 witness: a batch of two well-formed tokens stored one and skipped the
\* other, whose credential the first request stored and the second revoked;
\* it is still REVOKED with the revoked_at of the second request.
C17_Witness ==
    \E s \in Sessions : \E c \in db.credentials :
        /\ Finished(s, "upload_credential_batch")
        /\ sess[s].resp = Some(Ok([uploaded |-> 1, total |-> 2]))
        /\ started = MaxLedger
        /\ Cardinality(db.credentials) = 2
        /\ c.status = "REVOKED" /\ c.revoked_at = Some(MaxLedger - 1)

\* The token is malformed: not three segments, or its header or payload is
\* not base64url or does not decode to JSON.
Malformed(token) ==
    \/ Len(token) # 3
    \/ \E i \in {1, 2} : ~token[i].b64 \/ token[i].json = "none"

\* C18: no credential is stored or queued for a malformed token; an
\* iteration of the batch loop either queues one credential of a token that
\* is not malformed and counts it, or queues and counts nothing, and either
\* way keeps what was queued before and goes on; the commit stores every
\* queued credential.
C18_MalformedTokenSkipped ==
    /\ [](\A c \in db.credentials : ~Malformed(dec(c.raw_encrypted)))
    /\ [][ \A s \in Sessions :
              (sess[s].pc = "upload_credential_batch" /\ sess'[s] # sess[s])
              => IF sess'[s].pc = "upload_credential_batch"
                 THEN /\ db' = db
                      /\ sess'[s].loc[1].uploaded = Len(sess'[s].pending)
                      /\ SubSeq(sess'[s].pending, 1, Len(sess[s].pending)) = sess[s].pending
                      /\ Len(sess'[s].pending) \in { Len(sess[s].pending),
                                                       Len(sess[s].pending) + 1 }
                      /\ \A i \in 1..Len(sess'[s].pending) :
                           ~Malformed(dec(sess'[s].pending[i].row.raw_encrypted))
                 ELSE sess'[s].resp[1].status = 200
                      => \A i \in 1..Len(sess[s].pending) :
                            \E c \in db'.credentials :
                                /\ c.jti = sess[s].pending[i].row.jti
                                /\ c.raw_encrypted = sess[s].pending[i].row.raw_encrypted
          ]_vars

\* C18 witness: the first batch the registry ever received had two tokens;
\* it returned uploaded = 1 of total = 2 and the one credential stored is of
\* a token that is not malformed.
C18_Witness ==
    \E s \in Sessions :
        /\ started = 1
        /\ Finished(s, "upload_credential_batch")
        /\ sess[s].resp = Some(Ok([uploaded |-> 1, total |-> 2]))
        /\ Cardinality(db.credentials) = 1

\* vc.type normalized to a set of strings: a single string gives a
\* one-element set, a list its elements, anything else or absent null.
NormalizedTypes(vc_type) ==
    IF vc_type = None THEN None
    ELSE IF vc_type[1].json \in {"string", "array"} THEN Some(Range(vc_type[1].items))
    ELSE None

\* C19: a stored credential carries the claims of its token: the jti the
\* payload names, its iss as issuer, its sub as holder subject, its vc.type
\* normalized as types, and (no credential being revoked here) status ACTIVE.
C19_ClaimsExtracted ==
    \A c \in db.credentials :
        LET payload == dec(c.raw_encrypted)[2].claims[1]
        IN /\ payload.jti \notin {None, Some("")} => c.jti = payload.jti[1]
           /\ c.issuer_did = payload.iss
           /\ c.holder_subject = payload.sub
           /\ c.types = NormalizedTypes(payload.vc_type)
           /\ c.status = "ACTIVE"

\* C20: revoke_issuer_key of a kid no key has answers 404, and of a revoked
\* key already = true, both without a write queued or a table changed; the
\* commit of a first revocation sets the revoked flag of the key of that kid
\* and changes no other column of it, no other key and no other table.
C20_RevokeKeyOutcomes ==
    [][ \A s \in Sessions :
          /\ (sess[s].pc = "revoke_issuer_key" /\ sess'[s] # sess[s])
             => LET kid == sess[s].req[1].kid
                    known == { k \in db.issuer_keys : k.kid = kid }
                IN /\ db' = db
                   /\ known = {}
                      => /\ sess'[s].pc = "done" /\ sess'[s].pending = <<>>
                         /\ sess'[s].resp = Some(HTTPException(404, "Issuer key not found"))
                   /\ (\E k \in known : k.revoked)
                      => /\ sess'[s].pc = "done" /\ sess'[s].pending = <<>>
                         /\ sess'[s].resp[1].status = 200
                         /\ sess'[s].resp[1].body.already = TRUE
                   /\ (\E k \in known : ~k.revoked) => sess'[s].pc = "commit"
          /\ ( /\ sess[s].pc = "commit" /\ sess[s].req[1].op = "revoke_issuer_key"
               /\ sess'[s].pc = "done" )
             => /\ \A t \in Tables \ {"issuer_keys"} : db'[t] = db[t]
                /\ IF sess'[s].resp[1].status = 200
                   THEN db'.issuer_keys =
                          { IF k.kid = sess[s].req[1].kid THEN [k EXCEPT !.revoked = TRUE]
                            ELSE k : k \in db.issuer_keys }
                   ELSE db' = db
      ]_vars

\* C20 witness: a revoke of a revoked key answered already = true, and the
\* key, revoked by an earlier request, is still is_active.
C20_Witness ==
    \E s \in Sessions : \E k \in db.issuer_keys :
        /\ Finished(s, "revoke_issuer_key") /\ Returned(s)
        /\ "already" \in DOMAIN sess[s].resp[1].body
        /\ sess[s].resp[1].body.kid = k.kid
        /\ k.revoked /\ k.is_active

\* C21: add_issuer of an issuer_id that is registered answers with the
\* stored row, its id and its stored name whatever name the request gives,
\* queues no write and changes no table; no issuer_id is stored twice.
C21_RegisterIssuerIdempotent ==
    /\ [](\A i1, i2 \in db.issuers : i1.issuer_id = i2.issuer_id => i1 = i2)
    /\ [][ \A s \in Sessions : \A e \in db.issuers :
              ( /\ sess[s].pc = "add_issuer"
                /\ e.issuer_id = sess[s].req[1].issuer_id
                /\ sess'[s] # sess[s] )
              => /\ db' = db
                 /\ sess'[s].pc = "done"
                 /\ sess'[s].pending = <<>>
                 /\ sess'[s].resp = Some(Ok([id |-> e.id, issuer_id |-> e.issuer_id,
                                             name |-> e.name]))
          ]_vars

\* C21 witness: two add_issuer calls were answered with the same id and
\* name, one issuer is stored, and the key it has been given is still there.
C21_Witness ==
    /\ Cardinality(db.issuers) = 1
    /\ db.issuer_keys # {}
    /\ \E s, o \in Sessions :
         /\ s # o
         /\ Finished(s, "add_issuer") /\ Returned(s)
         /\ Finished(o, "add_issuer") /\ Returned(o)
         /\ sess[s].resp = sess[o].resp
         /\ \E e \in db.issuers : sess[s].resp[1].body = e

\* The bearer token is validly signed and its subject is a known user.
Authenticated(bearer) ==
    bearer.sig_ok /\ bearer.sub # None /\ \E u \in Users : bearer.sub = Some(u)

\* Session s is inside a handler.
Running(s) == sess[s].pc \notin {"idle", "done"}

\* C22: a handler only ever runs for an authenticated caller; the arrival of
\* a request changes no table, and when the caller is denied it is answered
\* 401 with nothing queued; every change of a table is made by a session
\* whose caller was authenticated.
C22_AuthGate ==
    /\ [](\A s \in Sessions : Running(s) => Authenticated(sess[s].req[1].bearer))
    /\ [][ \A s \in Sessions :
              (~Running(s) /\ sess'[s] # sess[s])
              => /\ db' = db
                 /\ sess'[s].pending = <<>>
                 /\ sess'[s].pc = "done"
                    => sess'[s].resp = Some(HTTPException(401,
                                                "Could not validate credentials")) ]_vars
    /\ [][ db' # db =>
              \E s \in Sessions :
                  /\ Running(s) /\ Authenticated(sess[s].req[1].bearer)
                  /\ sess'[s] # sess[s] ]_vars

\* C22 witness: a revoke of the stored credential was denied with 401; the
\* credential is ACTIVE and there is no revocation entry.
C22_Witness ==
    /\ \E c \in db.credentials : c.jti = "j1" /\ c.status = "ACTIVE"
    /\ db.revoked_credentials = {}
    /\ \E s \in Sessions :
         /\ Finished(s, "revoke_credential")
         /\ Raised(s, 401, "Could not validate credentials")

\* C23: a batch in which a jti not yet stored comes twice queues its
\* credential once and counts it once, each later item of that jti being
\* skipped, and its commit is not refused for the duplicate.
C23_InBatchDuplicatesSkipped ==
    \A s \in Sessions :
        /\ sess[s].pc = "upload_credential_batch"
           => /\ DistinctJtis(sess[s].pending)
              /\ sess[s].loc # None
                 => sess[s].loc[1].uploaded
                      = Cardinality({ sess[s].pending[i].row.jti :
                                        i \in 1..Len(sess[s].pending) })
        /\ Finished(s, "upload_credential_batch")
           => ~Raised(s, 400, "Batch upload failed: IntegrityError")

\* The counts of the batch loop of session s so far.
Counts(loc) == IF loc = None THEN [uploaded |-> 0, total |-> 0] ELSE loc[1]

\* The jti the payload of the token names, if it names one.
NamedJti(token) ==
    IF token[2].claims[1].jti \in {None, Some("")} THEN None ELSE token[2].claims[1].jti

\* The item is one the loop passes over on the tables d: its jws is missing
\* or empty, its token is malformed or has a payload that is not an object,
\* or the jti it names has a credential.
PassedOver(item, d) ==
    \/ item.jws \in {None, Some(<<>>)}
    \/ Malformed(item.jws[1])
    \/ item.jws[1][2].json # "object"
    \/ /\ NamedJti(item.jws[1]) # None
       /\ \E c \in d.credentials : Some(c.jti) = NamedJti(item.jws[1])

\* C24: each iteration of the batch loop counts its item in total; an item
\* passed over queues nothing and leaves uploaded as it is, any other item
\* queues one ACTIVE credential of its token and adds one to uploaded, under
\* the jti the token names or else under a generated jti no stored or queued
\* credential has.  A batch that returns successfully returns these counts,
\* with 0 <= uploaded <= total, and has added exactly uploaded credentials.
C24_BatchCounts ==
    [][ \A s \in Sessions :
          (sess[s].pc = "upload_credential_batch" /\ sess'[s] # sess[s])
          => LET was == Counts(sess[s].loc)
                 queued == sess[s].pending
             IN IF sess'[s].pc = "upload_credential_batch"
                THEN \E item \in KindItems :
                       /\ sess'[s].loc[1].total = was.total + 1
                       /\ IF PassedOver(item, db)
                          THEN /\ sess'[s].pending = queued
                               /\ sess'[s].loc[1].uploaded = was.uploaded
                          ELSE \E w \in { sess'[s].pending[Len(sess'[s].pending)] } :
                                 /\ sess'[s].pending = Append(queued, w)
                                 /\ sess'[s].loc[1].uploaded = was.uploaded + 1
                                 /\ w.t = "credentials" /\ w.kind = "insert"
                                 /\ dec(w.row.raw_encrypted) = item.jws[1]
                                 /\ w.row.status = "ACTIVE"
                                 /\ IF NamedJti(item.jws[1]) # None
                                    THEN Some(w.row.jti) = NamedJti(item.jws[1])
                                    ELSE /\ w.row.jti \notin Jtis
                                         /\ \A c \in db.credentials : c.jti # w.row.jti
                                         /\ \A i \in 1..Len(queued) :
                                              queued[i].row.jti # w.row.jti
                ELSE sess'[s].resp[1].status = 200
                     => /\ sess'[s].resp[1].body = was
                        /\ 0 <= was.uploaded /\ was.uploaded <= was.total
                        /\ was.uploaded = Len(queued)
                        /\ db.credentials \subseteq db'.credentials
                        /\ Cardinality(db'.credentials \ db.credentials) = was.uploaded
                        /\ \A c \in db'.credentials \ db.credentials : c.status = "ACTIVE"
      ]_vars

\* C24 witness: a batch returned uploaded = 1 of total = 2 after an earlier
\* batch; two credentials are stored under generated jtis, one from each
\* batch, both ACTIVE.
C24_Witness ==
    /\ started = MaxIngests
    /\ Cardinality(db.credentials) = 2
    /\ \A c \in db.credentials : c.jti \notin Jtis /\ c.status = "ACTIVE"
    /\ \E s, o \in Sessions :
         /\ s # o
         /\ Finished(s, "upload_credential_batch")
         /\ sess[s].resp = Some(Ok([uploaded |-> 1, total |-> 2]))
         /\ Finished(o, "upload_credential_batch") /\ Returned(o)
         /\ sess[o].resp[1].body.uploaded = 1
====
